---------------------------- MODULE Spec2Model ----------------------------
(***************************************************************************)
(* The structural indexer (markdownImport) and the position resolvers of   *)
(* the equation-number renderers (live preview and reading view).          *)
(*                                                                         *)
(* Text is a sequence of one-character strings.  Line numbers and offsets  *)
(* are 0-based as in the source; TLA+ sequences are 1-based, so character  *)
(* at offset i of text t is t[i + 1].                                      *)
(***************************************************************************)
EXTENDS Integers, Sequences, FiniteSets, TLC

(***************************************************************************)
(* Bounds of the model.                                                    *)
(***************************************************************************)
MaxLines == 4
MaxLinks == 2
MaxFrontmatter == 1
NumTargets == 2
MaxVersion == 3
MaxRefreshes == 3
MaxStaleLines == 3
MaxScanLen == 6
MaxAnchorLines == 3

(***************************************************************************)
(* Strings: split, join, slice, trim, indexOf.                             *)
(***************************************************************************)
NL == "\n"

Whitespace == {" ", "\t", NL}

\* String.prototype.slice(from, to) with 0 <= from, to <= length.
Slice(text, from, to) ==
    IF to <= from THEN <<>> ELSE SubSeq(text, from + 1, to)

\* line.trim() !== "" is false: every character is white space.
IsBlank(line) == \A i \in 1..Len(line) : line[i] \in Whitespace

RECURSIVE Join(_)
\* lines.join("\n")
Join(ls) ==
    IF Len(ls) = 0 THEN <<>>
    ELSE IF Len(ls) = 1 THEN ls[1]
    ELSE ls[1] \o <<NL>> \o Join(Tail(ls))

RECURSIVE SplitFrom(_, _, _)
SplitFrom(text, i, cur) ==
    IF i > Len(text) THEN <<cur>>
    ELSE IF text[i] = NL THEN <<cur>> \o SplitFrom(text, i + 1, <<>>)
    ELSE SplitFrom(text, i + 1, Append(cur, text[i]))

\* markdown.split("\n"): always at least one line.
Split(text) == SplitFrom(text, 1, <<>>)

\* blockText.indexOf("$$", from): the least offset >= from where the
\* delimiter starts, or -1.
IndexOfDelim(text, from) ==
    LET hits == {i \in from..(Len(text) - 2) :
                    text[i + 1] = "$" /\ text[i + 2] = "$"}
    IN IF hits = {} THEN -1
       ELSE CHOOSE i \in hits : \A j \in hits : i <= j

\* text.slice(0, k).split("\n").length - 1: line breaks before offset k.
LineBreaksBefore(text, k) ==
    Cardinality({i \in 1..k : text[i] = NL})

(***************************************************************************)
(* The documents: lines drawn from a small alphabet of line shapes.        *)
(***************************************************************************)
LBlank == <<>>
LText == <<"x">>
LHeading == <<"#">>
LMath == <<"$", "$", "x", "$", "$">>
LHeader == <<">", "!">>
LHeaderMath == <<">", "!", "$", "$", "x", "$", "$">>
LQText == <<">", "x">>
LQMath == <<">", "$", "$", "x", "$", "$">>
LQMath2 == <<">", "$", "$", "x", "$", "$", "$", "$", "x", "$", "$">>
LQDelim == <<">", "$", "$">>
LQHeading == <<">", "#">>

TopLines == {LBlank, LText, LHeading, LMath, LHeader, LHeaderMath}
QuoteLines == {LQText, LQMath, LQMath2, LQDelim, LQHeading}

IsQuote(line) == Len(line) > 0 /\ line[1] = ">"

RECURSIVE DocsOfLen(_)
DocsOfLen(n) ==
    IF n = 0 THEN {<<>>}
    ELSE {Append(d, l) : d \in DocsOfLen(n - 1), l \in TopLines \cup QuoteLines}

\* A quoted body line continues a callout: it follows another quoted line.
WellFormed(d) ==
    \A i \in 1..Len(d) :
        d[i] \in QuoteLines => (i > 1 /\ IsQuote(d[i - 1]))

Docs == UNION {{d \in DocsOfLen(n) : WellFormed(d)} : n \in 1..MaxLines}

(***************************************************************************)
(* The outline the metadata provider supplies for a document               *)
(* (CachedMetadata.headings and CachedMetadata.sections): headings, and    *)
(* blocks as whole-line spans with their offsets.                          *)
(***************************************************************************)
IsHeadingLine(line) == Len(line) > 0 /\ line[1] = "#"
\* A heading inside a callout: listed among the headings, no block of its own.
IsQuotedHeading(line) == Len(line) > 1 /\ line[1] = ">" /\ line[2] = "#"
IsMathLine(line) == Len(line) > 0 /\ line[1] = "$"
IsTextLine(line) ==
    ~IsBlank(line) /\ ~IsHeadingLine(line) /\ ~IsMathLine(line) /\ ~IsQuote(line)

\* Offset of the first character of 0-based line i.
LineOffset(ls, i) ==
    IF i = 0 THEN 0 ELSE Len(Join(SubSeq(ls, 1, i))) + 1

\* Last 0-based line of the run of lines of one kind that starts at line i.
RunEnd(ls, i, quoted) ==
    LET IsKind(line) == IF quoted THEN IsQuote(line) ELSE IsTextLine(line) IN
    CHOOSE j \in i..(Len(ls) - 1) :
        /\ \A k \in i..j : IsKind(ls[k + 1])
        /\ (j + 1 < Len(ls) => ~IsKind(ls[j + 2]))

OutlineBlock(ls, type, s, e) ==
    [type |-> type, start |-> s, end |-> e,
     startOffset |-> LineOffset(ls, s),
     endOffset |-> LineOffset(ls, e) + Len(ls[e + 1])]

RECURSIVE OutlineFrom(_, _)
OutlineFrom(ls, i) ==
    IF i >= Len(ls) THEN <<>>
    ELSE LET line == ls[i + 1] IN
         IF IsBlank(line) THEN OutlineFrom(ls, i + 1)
         ELSE IF IsHeadingLine(line)
              THEN <<OutlineBlock(ls, "heading", i, i)>> \o OutlineFrom(ls, i + 1)
         ELSE IF IsMathLine(line)
              THEN <<OutlineBlock(ls, "math", i, i)>> \o OutlineFrom(ls, i + 1)
         ELSE IF IsQuote(line)
              THEN LET e == RunEnd(ls, i, TRUE)
                   IN <<OutlineBlock(ls, "callout", i, e)>> \o OutlineFrom(ls, e + 1)
         ELSE LET e == RunEnd(ls, i, FALSE)
              IN <<OutlineBlock(ls, "paragraph", i, e)>> \o OutlineFrom(ls, e + 1)

MetaSections(text) == OutlineFrom(Split(text), 0)

\* One heading record per heading line, in source order.
MetaHeadings(text) ==
    LET ls == Split(text) IN
    LET F[i \in 0..Len(ls)] ==
            IF i = 0 THEN <<>>
            ELSE IF IsHeadingLine(ls[i]) \/ IsQuotedHeading(ls[i])
                 THEN Append(F[i - 1], [line |-> i - 1, level |-> 1])
                 ELSE F[i - 1]
    IN F[Len(ls)]

\* absent: the lists the metadata provider left out of the outline.
Metadata(text) ==
    [headings |-> MetaHeadings(text), sections |-> MetaSections(text),
     absent |-> {}]

\* metadata.headings ?? [], metadata.sections || []
ListOr(meta, name) == IF name \in meta.absent THEN <<>> ELSE meta[name]

(***************************************************************************)
(* The ordered map (sorted-btree BTree<number, V>) as a function on a      *)
(* finite set of keys.                                                     *)
(***************************************************************************)
EmptyTree == [k \in {} |-> 0]

NoKey == -1

BSet(t, k, v) == [x \in DOMAIN t \cup {k} |-> IF x = k THEN v ELSE t[x]]

MaxOf(S) == CHOOSE x \in S : \A y \in S : y <= x
MinOf(S) == CHOOSE x \in S : \A y \in S : x <= y

\* getPairOrNextLower(k): the key of the pair, NoKey for undefined.
GetPairOrNextLower(t, k) ==
    LET below == {x \in DOMAIN t : x <= k}
    IN IF below = {} THEN NoKey ELSE MaxOf(below)

\* getPairOrNextHigher(k): the key of the pair, NoKey for undefined.
GetPairOrNextHigher(t, k) ==
    LET above == {x \in DOMAIN t : x >= k}
    IN IF above = {} THEN NoKey ELSE MinOf(above)

RECURSIVE SortedKeys(_)
\* The keys in ascending order (values() and valuesArray() iterate so).
SortedKeys(S) ==
    IF S = {} THEN <<>> ELSE <<MinOf(S)>> \o SortedKeys(S \ {MinOf(S)})

(***************************************************************************)
(* markdownImport, sections (lines 35-68).                                 *)
(***************************************************************************)
\* emptylines(lines, start, end): start inclusive, end exclusive.
emptylines(ls, start, end) ==
    \A index \in start..(end - 1) : IsBlank(ls[index + 1])

\* The loop over metaheadings: section index + 1 ends the line before the
\* next heading, the last one at lines.length - 1.
HeadingSections(hs, n) ==
    LET F[i \in 0..Len(hs)] ==
            IF i = 0 THEN EmptyTree
            ELSE BSet(F[i - 1], hs[i].line,
                      [ordinal |-> i, level |-> hs[i].level,
                       start |-> hs[i].line,
                       end |-> IF i = Len(hs) THEN n - 1 ELSE hs[i + 1].line - 1,
                       blocks |-> <<>>, links |-> <<>>])
    IN F[Len(hs)]

\* The implicit leading section (ordinal 0).
WithImplicitSection(t, ls) ==
    LET first == GetPairOrNextHigher(t, 0)
        empty == \A i \in 1..Len(ls) : IsBlank(ls[i])
    IN IF (first = NoKey /\ ~empty)
          \/ (first # NoKey /\ ~emptylines(ls, 0, t[first].start))
       THEN BSet(t, 0, [ordinal |-> 0, level |-> 1, start |-> 0,
                        end |-> IF first # NoKey THEN t[first].start - 1
                                ELSE Len(ls),
                        blocks |-> <<>>, links |-> <<>>])
       ELSE t

BuildSections(ls, hs) == WithImplicitSection(HeadingSections(hs, Len(ls)), ls)

\* emptylines reads lines[index].trim() for every index below end until a
\* non-blank line returns false: an index past the last line is undefined
\* and the read raises a TypeError.
emptylinesRaises(ls, start, end) ==
    \E index \in start..(end - 1) :
        /\ index >= Len(ls)
        /\ \A j \in start..(index - 1) : j < Len(ls) /\ IsBlank(ls[j + 1])

\* Whether the condition of line 58 raises: emptylines is called when a
\* first section exists.
SectionsRaise(ls, hs) ==
    LET t == HeadingSections(hs, Len(ls))
        first == GetPairOrNextHigher(t, 0)
    IN first # NoKey /\ emptylinesRaises(ls, 0, t[first].start)

(***************************************************************************)
(* findDisplayMathInCalloutBlock (lines 266-299).  The cleaned LaTeX text  *)
(* of a region is not modelled: no block position or ordinal reads it.     *)
(***************************************************************************)
RECURSIVE FindDisplayMathFrom(_, _, _, _, _)
\* One turn of the while loop with the scan position at offset i.
FindDisplayMathFrom(blockText, blockStartLine, blockStartOffset, i, results) ==
    LET startDelim == IndexOfDelim(blockText, i) IN
    IF startDelim = -1 THEN results
    ELSE LET endDelim == IndexOfDelim(blockText, startDelim + 2) IN
         IF endDelim = -1 THEN results
         ELSE LET endOffset == endDelim + 2 IN
              FindDisplayMathFrom(blockText, blockStartLine, blockStartOffset,
                  endOffset,
                  Append(results,
                      [lineStart |-> blockStartLine
                                     + LineBreaksBefore(blockText, startDelim),
                       lineEnd |-> blockStartLine
                                   + LineBreaksBefore(blockText, endDelim),
                       startOffset |-> blockStartOffset + startDelim,
                       endOffset |-> blockStartOffset + endOffset]))

findDisplayMathInCalloutBlock(blockText, blockStartLine, blockStartOffset) ==
    FindDisplayMathFrom(blockText, blockStartLine, blockStartOffset, 0, <<>>)

(***************************************************************************)
(* markdownImport, blocks (lines 76-189).                                  *)
(***************************************************************************)
\* Whether the callout's header line parses as theorem-callout settings.
readTheoremCalloutSettings(line) ==
    Len(line) >= 2 /\ line[1] = ">" /\ line[2] = "!"

\* getBlockText taking the text from the block's start to the end of the text.
getBlockTextToEnd(data, block) == Slice(data, block.startOffset, Len(data))

\* Lines 258-260: the source text between the block's offsets.
getBlockText(data, block) == Slice(data, block.startOffset, block.endOffset)

\* The equation blocks of one callout (the loop of lines 129-153); st is
\* [blocks, blockOrdinal].
SetEquationBlocks(st, eqs) ==
    LET F[i \in 0..Len(eqs)] ==
            IF i = 0 THEN st
            ELSE [blocks |-> BSet(F[i - 1].blocks, eqs[i].lineStart,
                             [ordinal |-> F[i - 1].blockOrdinal,
                              start |-> eqs[i].lineStart, end |-> eqs[i].lineEnd,
                              startOffset |-> eqs[i].startOffset,
                              endOffset |-> eqs[i].endOffset,
                              type |-> "equation", links |-> <<>>]),
                  blockOrdinal |-> F[i - 1].blockOrdinal + 1]
    IN F[Len(eqs)]

\* The block built for the outline block itself, under the next ordinal.
SetOutlineBlock(st, block, type) ==
    [blocks |-> BSet(st.blocks, block.start,
                     [ordinal |-> st.blockOrdinal,
                      start |-> block.start, end |-> block.end,
                      startOffset |-> block.startOffset,
                      endOffset |-> block.endOffset,
                      type |-> type, links |-> <<>>]),
     blockOrdinal |-> st.blockOrdinal + 1]

\* The display-math regions of a theorem callout of the outline.
EquationsInCallout(data, block) ==
    findDisplayMathInCalloutBlock(getBlockText(data, block), block.start,
                                  block.startOffset)

IsTheoremCallout(ls, block) ==
    block.type = "callout" /\ readTheoremCalloutSettings(ls[block.start + 1])

\* The body of the loop over metadata.sections for one outline block.
ImportOneBlock(st, data, ls, block) ==
    IF block.type = "heading" THEN st
    ELSE IF block.type = "math" THEN SetOutlineBlock(st, block, "equation")
    ELSE IF IsTheoremCallout(ls, block)
         THEN SetOutlineBlock(SetEquationBlocks(st, EquationsInCallout(data, block)),
                              block, "theorem")
    ELSE SetOutlineBlock(st, block, block.type)

(***************************************************************************)
(* markdownImport, blocks into sections (lines 191-198).                   *)
(***************************************************************************)
\* SectionTakes with the block's start compared in place of its end.
SectionTakesByStart(section, block) == section.end >= block.start

\* Whether the section found for a block takes it.
SectionTakes(section, block) == section.end >= block.end

AddBlocksToSections(secs, bs) ==
    LET keys == SortedKeys(DOMAIN bs) IN
    LET F[i \in 0..Len(keys)] ==
            IF i = 0 THEN secs
            ELSE LET block == bs[keys[i]]
                     section == GetPairOrNextLower(F[i - 1], block.start)
                 IN IF section # NoKey /\ SectionTakes(F[i - 1][section], block)
                    THEN [F[i - 1] EXCEPT ![section].blocks = Append(@, keys[i])]
                    ELSE F[i - 1]
    IN F[Len(keys)]

(***************************************************************************)
(* markdownImport, links (lines 204-228) and addLink (lines 253-256).      *)
(***************************************************************************)
NoDisplay == "none"

\* Link.infer(link, false, displayText): the link as a value.
LinkInfer(target, display) == [path |-> target, display |-> display]

\* Link.equals: structural equality.
LinkEquals(a, b) == a.path = b.path /\ a.display = b.display

\* addLink appending the link whether or not the list holds an equal one.
addLinkAlways(target, incoming) == Append(target, incoming)

\* Lines 253-256: the link is appended unless the list holds an equal one.
addLink(target, incoming) ==
    IF \E i \in 1..Len(target) : LinkEquals(target[i], incoming) THEN target
    ELSE Append(target, incoming)

\* Lines 210-211: the section at or below the line, if it reaches the line.
LinkIntoSections(secs, line, link) ==
    LET section == GetPairOrNextLower(secs, line)
    IN IF section # NoKey /\ secs[section].end >= line
       THEN [secs EXCEPT ![section].links = addLink(@, link)]
       ELSE secs

\* Lines 213-214: the block at or below the line, if it reaches the line.
LinkIntoBlock(bs, line, link) ==
    LET block == GetPairOrNextLower(bs, line)
    IN IF block # NoKey /\ bs[block].end >= line
       THEN [bs EXCEPT ![block].links = addLink(@, link)]
       ELSE bs

\* Lines 216-217: the block at or above the line ("listItem").
LinkIntoListItem(bs, line, link) ==
    LET listItem == GetPairOrNextHigher(bs, line)
    IN IF listItem # NoKey /\ bs[listItem].end >= line
       THEN [bs EXCEPT ![listItem].links = addLink(@, link)]
       ELSE bs

\* The lines of a document on which the outline may report a link.
CanHoldLink(line) ==
    IsTextLine(line) \/ IsHeadingLine(line) \/ line = LQText \/ line = LHeader

Targets == 1..NumTargets

(***************************************************************************)
(* The page's position queries (MarkdownPage), over the block store.       *)
(***************************************************************************)
NoMatch == NoKey

\* getBlockByLineNumber: the block keyed at the line, else the block at or
\* below it when that block's end reaches the line.
getBlockByLineNumber(bs, line) ==
    IF line \in DOMAIN bs THEN line
    ELSE LET k == GetPairOrNextLower(bs, line)
         IN IF k # NoKey /\ bs[k].end >= line THEN k ELSE NoMatch

\* getBlockByOffset: the same lookup on the offset spans.
getBlockByOffset(bs, offset) ==
    LET at == {k \in DOMAIN bs : bs[k].startOffset <= offset}
    IN IF at = {} THEN NoMatch
       ELSE LET k == CHOOSE x \in at :
                        \A y \in at : bs[y].startOffset <= bs[x].startOffset
            IN IF bs[k].endOffset >= offset THEN k ELSE NoMatch

\* getEquationBlocksInRange: the equation blocks whose spans lie within
\* [startLine, endLine], ordered by start line.
getEquationBlocksInRange(bs, startLine, endLine) ==
    SortedKeys({k \in DOMAIN bs :
                   /\ bs[k].type = "equation"
                   /\ startLine <= bs[k].start /\ bs[k].end <= endLine})

(***************************************************************************)
(* EquationNumberRenderer.getEquationCache (reading-view.ts 128-148).      *)
(***************************************************************************)
\* The range handed to getEquationBlocksInRange at line 143.
RangeQueried(info, lineOffset) == [start |-> info.lineStart, end |-> info.lineEnd]

\* equationsInRange[ourIndex] ?? null
AtIndex(eqs, ourIndex) ==
    IF 0 <= ourIndex /\ ourIndex < Len(eqs) THEN eqs[ourIndex + 1] ELSE NoMatch

getEquationCache(bs, info, ourIndex, lineOffset) ==
    LET first == getBlockByLineNumber(bs, info.lineStart + lineOffset)
        block == IF first # NoMatch THEN first
                 ELSE getBlockByLineNumber(bs, info.lineEnd + lineOffset)
    IN IF block = NoMatch THEN NoMatch
       ELSE IF bs[block].type = "equation" THEN block
       ELSE IF bs[block].type = "theorem"
            THEN LET range == RangeQueried(info, lineOffset)
                 IN AtIndex(getEquationBlocksInRange(bs, range.start, range.end),
                            ourIndex)
       ELSE NoMatch

(***************************************************************************)
(* updateEquationNumber, one element (live-preview.ts 98-122).             *)
(***************************************************************************)
\* lineThrows: view.state.doc.lineAt raised, the offset lookup is used.
LivePreviewEquation(bs, line, pos, ourIndex, lineThrows) ==
    LET block == IF lineThrows THEN getBlockByOffset(bs, pos)
                 ELSE getBlockByLineNumber(bs, line)
    IN IF block = NoMatch THEN NoMatch
       ELSE IF bs[block].type = "equation" THEN block
       ELSE IF bs[block].type = "theorem"
            THEN AtIndex(getEquationBlocksInRange(bs, bs[block].start,
                                                  bs[block].end), ourIndex)
       ELSE NoMatch

(***************************************************************************)
(* The state of one indexing pass.                                         *)
(***************************************************************************)
VARIABLES
    markdown,      \* the source text handed to markdownImport
    metadata,      \* the outline handed to markdownImport
    pc,            \* the position of the pass
    lines,         \* markdown.split("\n")
    sections,      \* BTree of sections, by start line
    blocks,        \* BTree of blocks, by start line
    blockOrdinal,  \* the next block ordinal
    bi,            \* index of the next element of metadata.sections
    links,         \* the page's link list
    linkdefs,      \* the elements of metadata.links processed so far
    fmdefs,        \* the elements of metadata.frontmatterLinks processed so far
    rv,            \* the last resolution a rendering surface made on the page
    lp,            \* one live-preview plugin instance and the index it reads
    scan           \* one call of findDisplayMathInCalloutBlock

vars == <<markdown, metadata, pc, lines, sections, blocks, blockOrdinal, bi,
          links, linkdefs, fmdefs, rv, lp, scan>>

Idle == [surface |-> "idle"]

Init ==
    /\ markdown \in {Join(d) : d \in Docs}
    /\ metadata = Metadata(markdown)
    /\ pc = "sections"
    /\ lines = <<>>
    /\ sections = EmptyTree
    /\ blocks = EmptyTree
    /\ blockOrdinal = 1
    /\ bi = 1
    /\ links = <<>>
    /\ linkdefs = <<>>
    /\ fmdefs = <<>>
    /\ rv = Idle
    /\ lp = Idle
    /\ scan = Idle

\* Lines 28-68: split the text and build the sections.
ImportSections ==
    /\ pc = "sections"
    /\ lines' = Split(markdown)
    /\ IF SectionsRaise(lines', ListOr(metadata, "headings"))
       THEN pc' = "fault" /\ sections' = sections
       ELSE /\ sections' = BuildSections(lines', ListOr(metadata, "headings"))
            /\ pc' = "blocks"
    /\ UNCHANGED <<markdown, metadata, blocks, blockOrdinal, bi, links,
                   linkdefs, fmdefs, rv, lp, scan>>

\* Lines 78-189: one turn of the loop over metadata.sections.
ImportBlock ==
    /\ pc = "blocks"
    /\ bi <= Len(ListOr(metadata, "sections"))
    /\ LET st == ImportOneBlock([blocks |-> blocks, blockOrdinal |-> blockOrdinal],
                                markdown, lines, metadata.sections[bi])
       IN /\ blocks' = st.blocks
          /\ blockOrdinal' = st.blockOrdinal
    /\ bi' = bi + 1
    /\ UNCHANGED <<markdown, metadata, pc, lines, sections, links, linkdefs,
                   fmdefs, rv, lp, scan>>

\* Lines 191-198: the blocks loop is over; add the blocks to the sections.
AssignBlocks ==
    /\ pc = "blocks"
    /\ bi > Len(ListOr(metadata, "sections"))
    /\ sections' = AddBlocksToSections(sections, blocks)
    /\ pc' = "links"
    /\ UNCHANGED <<markdown, metadata, lines, blocks, blockOrdinal, bi, links,
                   linkdefs, fmdefs, rv, lp, scan>>

\* Lines 205-218: one turn of the loop over metadata.links; the outline
\* lists the occurrences in source order.
ImportLink(line, target) ==
    /\ pc = "links"
    /\ Len(linkdefs) < MaxLinks
    /\ CanHoldLink(lines[line + 1])
    /\ Len(linkdefs) > 0 => linkdefs[Len(linkdefs)].line <= line
    /\ LET link == LinkInfer(target, NoDisplay)
       IN /\ links' = addLink(links, link)
          /\ sections' = LinkIntoSections(sections, line, link)
          /\ blocks' = LinkIntoListItem(LinkIntoBlock(blocks, line, link), line, link)
    /\ linkdefs' = Append(linkdefs, [line |-> line, target |-> target])
    /\ UNCHANGED <<markdown, metadata, pc, lines, blockOrdinal, bi, fmdefs, rv, lp, scan>>

\* The loop over metadata.links is over.
EndLinks ==
    /\ pc = "links"
    /\ pc' = "frontmatter"
    /\ UNCHANGED <<markdown, metadata, lines, sections, blocks, blockOrdinal,
                   bi, links, linkdefs, fmdefs, rv, lp, scan>>

\* ImportFrontmatterLink handling the link as a body link on line 0.
ImportFrontmatterLinkAsBody(target, display) ==
    /\ pc = "frontmatter"
    /\ Len(fmdefs) < MaxFrontmatter
    /\ links' = addLink(links, LinkInfer(target, display))
    /\ sections' = LinkIntoSections(sections, 0, LinkInfer(target, display))
    /\ blocks' = LinkIntoBlock(blocks, 0, LinkInfer(target, display))
    /\ fmdefs' = Append(fmdefs, [target |-> target, display |-> display])
    /\ UNCHANGED <<markdown, metadata, pc, lines, blockOrdinal, bi, linkdefs,
                   rv, lp, scan>>

\* Lines 225-228: one turn of the loop over metadata.frontmatterLinks.
ImportFrontmatterLink(target, display) ==
    /\ pc = "frontmatter"
    /\ Len(fmdefs) < MaxFrontmatter
    /\ links' = addLink(links, LinkInfer(target, display))
    /\ fmdefs' = Append(fmdefs, [target |-> target, display |-> display])
    /\ UNCHANGED <<markdown, metadata, pc, lines, sections, blocks,
                   blockOrdinal, bi, linkdefs, rv, lp, scan>>

\* Lines 230-236: the page is returned.
ReturnPage ==
    /\ pc = "frontmatter"
    /\ pc' = "done"
    /\ UNCHANGED <<markdown, metadata, lines, sections, blocks, blockOrdinal,
                   bi, links, linkdefs, fmdefs, rv, lp, scan>>

\* The pass up to the assembled sections and blocks.
NextBuild ==
    \/ ImportSections
    \/ ImportBlock
    \/ AssignBlocks

SpecBuild == Init /\ [][NextBuild]_vars

Next ==
    \/ ImportSections
    \/ ImportBlock
    \/ AssignBlocks
    \/ \E line \in 0..(Len(lines) - 1), target \in Targets : ImportLink(line, target)
    \/ EndLinks
    \/ \E target \in Targets, display \in {NoDisplay, "d"} :
           ImportFrontmatterLink(target, display)
    \/ ReturnPage

Spec == Init /\ [][Next]_vars

(***************************************************************************)
(* Properties of the indexing pass.                                        *)
(***************************************************************************)
CurBlock == metadata.sections[bi]

InBlocksLoop == pc = "blocks" /\ bi <= Len(metadata.sections)

Built == pc \in {"links", "frontmatter", "done"}

Contains(span, l) == span.start <= l /\ l <= span.end

Covers(outer, inner) == outer.start <= inner.start /\ inner.end <= outer.end

HasLink(list, link) == \E i \in 1..Len(list) : LinkEquals(list[i], link)

\* The store entry built from a display-math region, if it is still there.
IsBlockOfRegion(b, eq) ==
    b.type = "equation" /\ b.startOffset = eq.startOffset

\* The regions of a callout open on lines of their own below the header
\* line: no two blocks of the callout share a store key.
RegionsOnOwnLines(block, eqs) ==
    \A i \in 1..Len(eqs) :
        /\ eqs[i].lineStart # block.start
        /\ \A j \in 1..Len(eqs) : i # j => eqs[i].lineStart # eqs[j].lineStart

\* C1: in one pass a theorem callout with N display-math regions takes
\* ordinal k for itself, its nested equations take k+1 .. k+N in their order
\* of appearance, and the next top-level block takes k+N+1.  Stated for the
\* callouts whose regions open on lines of their own, where every block the
\* turn builds is in the store afterwards.
C1_CalloutOrdinalFirst ==
    [][(/\ InBlocksLoop /\ IsTheoremCallout(lines, CurBlock)
        /\ RegionsOnOwnLines(CurBlock, EquationsInCallout(markdown, CurBlock))) =>
        LET k == blockOrdinal
            eqs == EquationsInCallout(markdown, CurBlock)
        IN /\ blocks'[CurBlock.start].ordinal = k
           /\ \A j \in 1..Len(eqs) :
                  LET b == blocks'[eqs[j].lineStart]
                  IN IsBlockOfRegion(b, eqs[j]) => b.ordinal = k + j
           /\ blockOrdinal' = k + Len(eqs) + 1]_vars

\* What the pass is to build: one block per non-heading outline block and one
\* per display-math region of a theorem callout.
ExpectedBlockCount ==
    LET bs == metadata.sections IN
    LET F[i \in 0..Len(bs)] ==
            IF i = 0 THEN 0
            ELSE F[i - 1]
                 + (IF bs[i].type = "heading" THEN 0
                    ELSE IF IsTheoremCallout(lines, bs[i])
                         THEN 1 + Len(EquationsInCallout(markdown, bs[i]))
                    ELSE 1)
    IN F[Len(bs)]

\* C2: no block built during the pass is lost to a key collision: the block
\* store holds one entry per non-heading outline block plus one per
\* display-math region extracted from a theorem callout.
C2_NoBlockLost ==
    Built => Cardinality(DOMAIN blocks) = ExpectedBlockCount

SectionLines(k) == sections[k].start..sections[k].end

\* C3: for a non-blank document the section spans are pairwise
\* non-overlapping and their union is exactly [0, lastLine], lastLine being
\* the index of the last line of the split source.
C3_SectionsPartition ==
    (pc # "sections" /\ \E i \in 1..Len(lines) : ~IsBlank(lines[i])) =>
        /\ \A a, b \in DOMAIN sections :
               a # b => SectionLines(a) \cap SectionLines(b) = {}
        /\ UNION {SectionLines(k) : k \in DOMAIN sections} = 0..(Len(lines) - 1)

\* C7: every body link occurrence on line l is in the page's link list, in
\* the link list of the section containing l and, when an indexed block
\* contains l, in the link list of an indexed block containing l.
C7_LinkReachesItsBlock ==
    \A i \in 1..Len(linkdefs) :
        LET l == linkdefs[i].line
            link == LinkInfer(linkdefs[i].target, NoDisplay)
        IN /\ HasLink(links, link)
           /\ \A k \in DOMAIN sections :
                  Contains(sections[k], l) => HasLink(sections[k].links, link)
           /\ (\E k \in DOMAIN blocks : Contains(blocks[k], l)) =>
                  \E k \in DOMAIN blocks :
                      Contains(blocks[k], l) /\ HasLink(blocks[k].links, link)

\* C8: processing a body link occurrence on line l leaves the link list of
\* every block that does not contain l unchanged, in particular that of the
\* next block starting after l.
C8_LinkOnlyInItsBlock ==
    [][(pc = "links" /\ Len(linkdefs') = Len(linkdefs) + 1) =>
        LET l == linkdefs'[Len(linkdefs')].line
        IN \A k \in DOMAIN blocks :
               ~Contains(blocks[k], l) => blocks'[k].links = blocks[k].links]_vars

\* C14: processing a frontmatter link changes only the page-level link
\* list: the link list of every section and of every block is the same
\* before and after, also for a link structurally equal to a body link.
C14_FrontmatterOnlyOnPage ==
    [][(pc = "frontmatter" /\ Len(fmdefs') = Len(fmdefs) + 1) =>
          /\ \A k \in DOMAIN sections : sections'[k].links = sections[k].links
          /\ \A k \in DOMAIN blocks : blocks'[k].links = blocks[k].links
          /\ DOMAIN sections' = DOMAIN sections /\ DOMAIN blocks' = DOMAIN blocks]_vars

\* C14 witness: a frontmatter link structurally equal to a body link has
\* been processed on a page where a section and a block hold that link.
C14_Witness ==
    /\ pc \in {"frontmatter", "done"}
    /\ Len(fmdefs) > 0
    /\ LET fm == LinkInfer(fmdefs[1].target, fmdefs[1].display) IN
       /\ \E i \in 1..Len(linkdefs) :
              LinkEquals(LinkInfer(linkdefs[i].target, NoDisplay), fm)
       /\ \E k \in DOMAIN sections : HasLink(sections[k].links, fm)
       /\ \E k \in DOMAIN blocks : HasLink(blocks[k].links, fm)

InSection(s, k) == \E i \in 1..Len(sections[s].blocks) : sections[s].blocks[i] = k

\* C9: after assembly every block of the store is in the block list of at
\* most one section; it is in section S exactly when S is the section with
\* the greatest start <= the block's start and S.end >= the block's end; and
\* a block whose span some section's span covers is a member of that section.
C9_BlockInItsSection ==
    Built =>
        \A k \in DOMAIN blocks :
            /\ Cardinality({s \in DOMAIN sections : InSection(s, k)}) <= 1
            /\ \A s \in DOMAIN sections :
                   /\ Cardinality({i \in 1..Len(sections[s].blocks) :
                                      sections[s].blocks[i] = k}) <= 1
                   /\ InSection(s, k) <=>
                        /\ s <= blocks[k].start
                        /\ \A t \in DOMAIN sections :
                               t <= blocks[k].start => t <= s
                        /\ sections[s].end >= blocks[k].end
                   /\ Covers(sections[s], blocks[k]) => InSection(s, k)

\* C9 witness: a built page where one section holds a theorem callout and
\* its nested equation, another section holds a block, and a callout that
\* runs past the end of its section is in no section.
C9_Witness ==
    /\ Built
    /\ \E s, t \in DOMAIN sections :
           /\ s # t /\ Len(sections[t].blocks) > 0
           /\ \E c, e \in DOMAIN blocks :
                  /\ blocks[c].type = "theorem" /\ blocks[e].type = "equation"
                  /\ c # e /\ InSection(s, c) /\ InSection(s, e)
    \/ /\ Built
       /\ \E c \in DOMAIN blocks :
              /\ blocks[c].type = "theorem"
              /\ \A s \in DOMAIN sections : ~InSection(s, c)
              /\ \E e \in DOMAIN blocks, s \in DOMAIN sections :
                     blocks[e].type = "equation" /\ InSection(s, e)

\* No two links of the list are structurally equal.
NoEqualLinks(list) ==
    \A i, j \in 1..Len(list) : LinkEquals(list[i], list[j]) => i = j

\* The list is kept, or one link that no link of it equals is put at its end.
KeptOrAppended(before, after) ==
    \/ after = before
    \/ /\ Len(after) = Len(before) + 1
       /\ SubSeq(after, 1, Len(before)) = before
       /\ ~HasLink(before, after[Len(after)])

InLinkLoops == pc \in {"links", "frontmatter"}

\* C22: after any sequence of body link occurrences and frontmatter links no
\* page, section or block link list holds two structurally equal links, and
\* each list keeps its links in first-occurrence order: a processed link
\* leaves a list as it was or is put at its end, being new to it, and the
\* page's list holds every processed link.
C22_LinkListsDeduplicated ==
    /\ [](/\ NoEqualLinks(links)
          /\ \A k \in DOMAIN sections : NoEqualLinks(sections[k].links)
          /\ \A k \in DOMAIN blocks : NoEqualLinks(blocks[k].links))
    /\ [][(InLinkLoops /\ pc' = pc) =>
            /\ KeptOrAppended(links, links')
            /\ \E i \in 1..Len(links') :
                   \/ /\ Len(linkdefs') > Len(linkdefs)
                      /\ links'[i] = LinkInfer(linkdefs'[Len(linkdefs')].target,
                                                NoDisplay)
                   \/ /\ Len(fmdefs') > Len(fmdefs)
                      /\ links'[i] = LinkInfer(fmdefs'[Len(fmdefs')].target,
                                                fmdefs'[Len(fmdefs')].display)
            /\ DOMAIN sections' = DOMAIN sections
            /\ \A k \in DOMAIN sections :
                   KeptOrAppended(sections[k].links, sections'[k].links)
            /\ DOMAIN blocks' = DOMAIN blocks
            /\ \A k \in DOMAIN blocks :
                   KeptOrAppended(blocks[k].links, blocks'[k].links)]_vars

\* C22 witness: two different body links and then a frontmatter link equal
\* to the first have been processed; the page's list and a section's list
\* hold the two links once each, in the order of their first occurrence,
\* and a block's list holds the first.
C22_Witness ==
    /\ pc \in {"frontmatter", "done"}
    /\ Len(linkdefs) = 2 /\ Len(fmdefs) = 1
    /\ linkdefs[1].target # linkdefs[2].target
    /\ fmdefs[1] = [target |-> linkdefs[1].target, display |-> NoDisplay]
    /\ LET both == <<LinkInfer(linkdefs[1].target, NoDisplay),
                     LinkInfer(linkdefs[2].target, NoDisplay)>>
       IN /\ links = both
          /\ \E k \in DOMAIN sections : sections[k].links = both
          /\ \E k \in DOMAIN blocks : blocks[k].links = <<both[1]>>

(***************************************************************************)
(* The indexing pass on an outline that is older than the text, or that    *)
(* lacks lists: the outline is that of an earlier text of the file.        *)
(***************************************************************************)
StaleLines == {LBlank, LText, LHeading, LMath}

RECURSIVE StaleDocsOfLen(_)
StaleDocsOfLen(n) ==
    IF n = 0 THEN {<<>>}
    ELSE {Append(d, l) : d \in StaleDocsOfLen(n - 1), l \in StaleLines}

StaleDocs == UNION {StaleDocsOfLen(n) : n \in 1..MaxStaleLines}

\* The outline of text old with the lists of names left out.
OutlineWithout(old, names) ==
    [headings |-> IF "headings" \in names THEN <<>> ELSE MetaHeadings(old),
     sections |-> IF "sections" \in names THEN <<>> ELSE MetaSections(old),
     absent |-> names]

InitStale ==
    /\ markdown \in {Join(d) : d \in StaleDocs}
    /\ metadata \in {OutlineWithout(Join(old), names) :
                         old \in StaleDocs, names \in SUBSET {"headings", "sections"}}
    /\ pc = "sections"
    /\ lines = <<>>
    /\ sections = EmptyTree
    /\ blocks = EmptyTree
    /\ blockOrdinal = 1
    /\ bi = 1
    /\ links = <<>>
    /\ linkdefs = <<>>
    /\ fmdefs = <<>>
    /\ rv = Idle
    /\ lp = Idle
    /\ scan = Idle

SpecStale == InitStale /\ [][NextBuild]_vars

\* C11: markdownImport returns a page without raising for every source text
\* and every outline, an outline with absent lists and an outline whose
\* heading or block start lines are not below the number of lines included.
C11_ImportNeverRaises == pc # "fault"

(***************************************************************************)
(* The indexing pass on source texts with and without a final line break.  *)
(***************************************************************************)
InitText ==
    /\ markdown \in {Join(d) : d \in Docs} \cup {Join(d) \o <<NL>> : d \in Docs}
    /\ metadata = Metadata(markdown)
    /\ pc = "sections"
    /\ lines = <<>>
    /\ sections = EmptyTree
    /\ blocks = EmptyTree
    /\ blockOrdinal = 1
    /\ bi = 1
    /\ links = <<>>
    /\ linkdefs = <<>>
    /\ fmdefs = <<>>
    /\ rv = Idle
    /\ lp = Idle
    /\ scan = Idle

SpecText == InitText /\ [][NextBuild]_vars

\* The theorem callouts of the outline that the blocks loop has been through.
ImportedCallouts ==
    IF pc = "sections" THEN {}
    ELSE {i \in 1..(bi - 1) : IsTheoremCallout(lines, metadata.sections[i])}

\* C24: every nested equation extracted from a theorem callout with line
\* span [s, e] and offset span [so, eo] has s <= lineStart <= lineEnd <= e
\* and so <= startOffset < endOffset <= eo, and successive regions of one
\* callout do not overlap: the endOffset of a region is at most the
\* startOffset of the next.
C24_NestedEquationInCallout ==
    \A c \in ImportedCallouts :
        LET block == metadata.sections[c]
            eqs == EquationsInCallout(markdown, block)
        IN /\ \A k \in 1..Len(eqs) :
                  /\ block.start <= eqs[k].lineStart
                  /\ eqs[k].lineStart <= eqs[k].lineEnd
                  /\ eqs[k].lineEnd <= block.end
                  /\ block.startOffset <= eqs[k].startOffset
                  /\ eqs[k].startOffset < eqs[k].endOffset
                  /\ eqs[k].endOffset <= block.endOffset
           /\ \A k \in 1..(Len(eqs) - 1) :
                  eqs[k].endOffset <= eqs[k + 1].startOffset

\* C24 witness: the loop has been through a theorem callout below the
\* text's first line with two regions, one of them over more than one line.
C24_Witness ==
    \E c \in ImportedCallouts :
        LET block == metadata.sections[c]
            eqs == EquationsInCallout(markdown, block)
        IN /\ block.start > 0
           /\ Len(eqs) >= 2
           /\ \E k \in 1..Len(eqs) : eqs[k].lineStart < eqs[k].lineEnd

\* The last line of a text: a text of n lines, each ended by a line break,
\* ends at line n - 1, as does a text of n lines without a final line break.
LastLine(text) ==
    IF Len(text) > 0 /\ text[Len(text)] = NL THEN Len(Split(text)) - 2
    ELSE Len(Split(text)) - 1

\* C16: the section of heading i spans [start_i, start_(i+1) - 1], the
\* section of the last heading ends at the document's last line; an implicit
\* section with ordinal 0 exists exactly when some line before the first
\* heading is non-blank (or there is no heading and the document is
\* non-blank), and it spans from line 0 to the line before the first heading,
\* or to the document's last line when there is no heading.
C16_SectionSpans ==
    pc \in {"blocks", "links", "frontmatter", "done"} =>
        LET hs == metadata.headings
            n == Len(hs)
            implicit == 0 \in DOMAIN sections /\ sections[0].ordinal = 0
            before == IF n = 0 THEN Len(lines) ELSE hs[1].line
        IN /\ \A i \in 1..n :
                  /\ hs[i].line \in DOMAIN sections
                  /\ sections[hs[i].line].ordinal = i
                  /\ sections[hs[i].line].start = hs[i].line
                  /\ sections[hs[i].line].end =
                         IF i < n THEN hs[i + 1].line - 1 ELSE LastLine(markdown)
           /\ implicit <=> \E l \in 1..before : ~IsBlank(lines[l])
           /\ implicit =>
                  /\ sections[0].start = 0
                  /\ sections[0].end =
                         IF n > 0 THEN hs[1].line - 1 ELSE LastLine(markdown)
           /\ Cardinality(DOMAIN sections) = n + (IF implicit THEN 1 ELSE 0)

(***************************************************************************)
(* One call of findDisplayMathInCalloutBlock (lines 266-299), turn by turn *)
(* of its while loop.                                                      *)
(***************************************************************************)
RECURSIVE TextsOfLen(_)
TextsOfLen(n) ==
    IF n = 0 THEN {<<>>}
    ELSE {Append(t, c) : t \in TextsOfLen(n - 1), c \in {"$", "x", NL}}

ScanTexts == UNION {TextsOfLen(n) : n \in 0..MaxScanLen}

InitScan ==
    /\ markdown = <<>>
    /\ metadata = Metadata(markdown)
    /\ pc = "scan"
    /\ lines = <<>>
    /\ sections = EmptyTree
    /\ blocks = EmptyTree
    /\ blockOrdinal = 1
    /\ bi = 1
    /\ links = <<>>
    /\ linkdefs = <<>>
    /\ fmdefs = <<>>
    /\ rv = Idle
    /\ lp = Idle
    /\ \E t \in ScanTexts, line \in {0, 1} :
           scan = [surface |-> "loop", blockText |-> t, blockStartLine |-> line,
                   blockStartOffset |-> 2 * line, i |-> 0, results |-> <<>>]

\* ScanTurn searching on from the closing delimiter instead of past it.
ScanTurnFromClosing(s) ==
    LET startDelim == IndexOfDelim(s.blockText, s.i) IN
    IF startDelim = -1 THEN [s EXCEPT !.surface = "return"]
    ELSE LET endDelim == IndexOfDelim(s.blockText, startDelim + 2) IN
         IF endDelim = -1 THEN [s EXCEPT !.surface = "return", !.i = startDelim + 2]
         ELSE [s EXCEPT !.i = endDelim,
                        !.results = Append(@,
                            [lineStart |-> s.blockStartLine
                                           + LineBreaksBefore(s.blockText, startDelim),
                             lineEnd |-> s.blockStartLine
                                         + LineBreaksBefore(s.blockText, endDelim),
                             startOffset |-> s.blockStartOffset + startDelim,
                             endOffset |-> s.blockStartOffset + endDelim + 2])]

\* One evaluation of the loop condition (line 274) and, when a delimiter is
\* found, one turn of the body (lines 275-296).
ScanTurn(s) ==
    LET startDelim == IndexOfDelim(s.blockText, s.i) IN
    IF startDelim = -1 THEN [s EXCEPT !.surface = "return"]
    ELSE LET endDelim == IndexOfDelim(s.blockText, startDelim + 2) IN
         IF endDelim = -1 THEN [s EXCEPT !.surface = "return", !.i = startDelim + 2]
         ELSE [s EXCEPT !.i = endDelim + 2,
                        !.results = Append(@,
                            [lineStart |-> s.blockStartLine
                                           + LineBreaksBefore(s.blockText, startDelim),
                             lineEnd |-> s.blockStartLine
                                         + LineBreaksBefore(s.blockText, endDelim),
                             startOffset |-> s.blockStartOffset + startDelim,
                             endOffset |-> s.blockStartOffset + endDelim + 2])]

scanFrame == <<markdown, metadata, pc, lines, sections, blocks, blockOrdinal,
               bi, links, linkdefs, fmdefs, rv, lp>>

ScanLoop ==
    /\ scan.surface = "loop"
    /\ scan' = ScanTurn(scan)
    /\ UNCHANGED scanFrame

\* Line 298: return results.
ScanReturn ==
    /\ scan.surface = "return"
    /\ scan' = [scan EXCEPT !.surface = "returned"]
    /\ UNCHANGED scanFrame

NextScan ==
    \/ ScanLoop
    \/ ScanReturn

\* The loop is the only thing the call does: it is always scheduled.
SpecScan == InitScan /\ [][NextScan]_vars /\ WF_vars(NextScan)

RECURSIVE Occurrences(_, _)
\* The offsets of the non-overlapping "$$" occurrences of a text at or after
\* offset from, left to right.
Occurrences(text, from) ==
    LET p == IndexOfDelim(text, from)
    IN IF p = -1 THEN <<>> ELSE <<p>> \o Occurrences(text, p + 2)

\* One region per pair of occurrences (1-2, 3-4, ...).
PairedRegions(text, line, offset) ==
    LET occ == Occurrences(text, 0)
    IN [k \in 1..(Len(occ) \div 2) |->
           [lineStart |-> line + LineBreaksBefore(text, occ[2 * k - 1]),
            lineEnd |-> line + LineBreaksBefore(text, occ[2 * k]),
            startOffset |-> offset + occ[2 * k - 1],
            endOffset |-> offset + occ[2 * k] + 2]]

ImportAllBlocks(data, meta) ==
    LET F[i \in 0..Len(meta.sections)] ==
            IF i = 0 THEN [blocks |-> EmptyTree, blockOrdinal |-> 1]
            ELSE ImportOneBlock(F[i - 1], data, Split(data), meta.sections[i])
    IN F[Len(meta.sections)]

\* The index holds the page of one of the documents docs, without links.
InitPage(docs) ==
    /\ markdown \in {Join(d) : d \in docs}
    /\ metadata = Metadata(markdown)
    /\ pc = "done"
    /\ lines = Split(markdown)
    /\ blocks = ImportAllBlocks(markdown, metadata).blocks
    /\ blockOrdinal = ImportAllBlocks(markdown, metadata).blockOrdinal
    /\ bi = Len(metadata.sections) + 1
    /\ sections = AddBlocksToSections(BuildSections(lines, metadata.headings), blocks)
    /\ links = <<>>
    /\ linkdefs = <<>>
    /\ fmdefs = <<>>
    /\ rv = Idle
    /\ lp = Idle
    /\ scan = Idle

InitRV == InitPage(Docs)

\* The display-math elements a surface renders: one per top-level math
\* block, and inside a theorem callout one per sibling position, up to one
\* past the callout's display-math regions.
ElementsOf(data, ls, meta) ==
    UNION {LET b == meta.sections[i] IN
           IF b.type = "math" THEN {[block |-> i, index |-> 0]}
           ELSE IF IsTheoremCallout(ls, b)
                THEN {[block |-> i, index |-> j] :
                         j \in 0..Len(EquationsInCallout(data, b))}
           ELSE {} : i \in 1..Len(meta.sections)}

Elements == ElementsOf(markdown, lines, metadata)

\* getSectionInfo of an element: the lines of its outline block, relative to
\* the first line of the rendered content.
SectionInfo(el, base) ==
    [lineStart |-> metadata.sections[el.block].start - base,
     lineEnd |-> metadata.sections[el.block].end - base]

indexVars == <<markdown, metadata, pc, lines, sections, blocks, blockOrdinal,
               bi, links, linkdefs, fmdefs>>

\* A resolution reads the page and nothing of an earlier resolution: each is
\* taken from the page at rest.
AtRest == pc = "done" /\ rv = Idle

\* page.getBlockByLineNumber(line)
LookupLine(line) ==
    /\ AtRest
    /\ rv' = [surface |-> "line", line |-> line,
              result |-> getBlockByLineNumber(blocks, line)]
    /\ UNCHANGED <<indexVars, lp, scan>>

\* EquationNumberRenderer.update in reading view, no embed and no hover:
\* getEquationCacheCaringHoverAndEmbed returns getEquationCache().
ReadingViewUpdate(el) ==
    /\ AtRest
    /\ LET info == SectionInfo(el, 0)
       IN rv' = [surface |-> "reading", element |-> el, base |-> 0, info |-> info,
                 range |-> RangeQueried(info, 0),
                 result |-> getEquationCache(blocks, info, el.index, 0)]
    /\ UNCHANGED <<indexVars, lp, scan>>

\* EquationNumberRenderer.update inside an embed or hover preview whose
\* linktext resolves to the heading on line base of this page
\* (reading-view.ts 192-206): getEquationCache(subpathResult.start.line).
EmbedUpdate(el, base) ==
    /\ AtRest
    /\ \E i \in 1..Len(metadata.headings) : metadata.headings[i].line = base
    /\ base \in DOMAIN sections
    /\ Covers(sections[base], metadata.sections[el.block])
    /\ LET info == SectionInfo(el, base)
       IN rv' = [surface |-> "embed", element |-> el, base |-> base, info |-> info,
                 range |-> RangeQueried(info, base),
                 result |-> getEquationCache(blocks, info, el.index, base)]
    /\ UNCHANGED <<indexVars, lp, scan>>

\* updateEquationNumber for one element: the editor reports the position of
\* the element's outline block.
LivePreviewUpdate(el, lineThrows) ==
    /\ AtRest
    /\ LET b == metadata.sections[el.block]
       IN rv' = [surface |-> "live", element |-> el, base |-> 0,
                 info |-> SectionInfo(el, 0),
                 range |-> [start |-> b.start, end |-> b.end],
                 result |-> LivePreviewEquation(blocks, b.start, b.startOffset,
                                                el.index, lineThrows)]
    /\ UNCHANGED <<indexVars, lp, scan>>

NextRV ==
    \/ AtRest /\ \E line \in 0..(Len(lines) - 1) : LookupLine(line)
    \/ AtRest /\ \E el \in Elements : ReadingViewUpdate(el)
    \/ AtRest /\ \E el \in Elements, base \in 0..(Len(lines) - 1) :
                     EmbedUpdate(el, base)
    \/ AtRest /\ \E el \in Elements, lineThrows \in BOOLEAN :
                     LivePreviewUpdate(el, lineThrows)

SpecRV == InitRV /\ [][NextRV]_vars

(***************************************************************************)
(* Properties of the resolvers.                                            *)
(***************************************************************************)
ElementBlock == metadata.sections[rv.element.block]

InCallout ==
    rv.surface \in {"reading", "live", "embed"} /\ IsTheoremCallout(lines, ElementBlock)

\* C4: in live preview and reading view, the element at 0-based position j
\* among the display-math elements of a theorem callout resolves to the
\* equation block of the callout's j-th display-math region, and to no match
\* when j is not smaller than the number of equation blocks in the callout's
\* span.
C4_OrdinalSelectsRegion ==
    (InCallout /\ rv.surface \in {"reading", "live"}) =>
        LET eqs == EquationsInCallout(markdown, ElementBlock)
            j == rv.element.index
            inSpan == {k \in DOMAIN blocks :
                          blocks[k].type = "equation" /\ Covers(ElementBlock, blocks[k])}
        IN /\ j < Len(eqs) =>
                  /\ rv.result # NoMatch
                  /\ IsBlockOfRegion(blocks[rv.result], eqs[j + 1])
           /\ j >= Cardinality(inSpan) => rv.result = NoMatch

Width(k) == blocks[k].end - blocks[k].start

\* C5: for every indexed block B and every line l of B's span the by-line
\* lookup returns the narrowest indexed block containing l (B itself unless
\* a theorem callout nests an equation block there).
C5_LineLookupFindsBlock ==
    rv.surface = "line" =>
        LET holders == {k \in DOMAIN blocks : Contains(blocks[k], rv.line)}
        IN holders # {} =>
              /\ rv.result \in holders
              /\ \A k \in holders : Width(rv.result) <= Width(k)

\* C6: in an embed or hover preview anchored at base line b every lookup is
\* made with absolute lines: the nested-equation range queried for a theorem
\* callout is [lineStart+b, lineEnd+b], and the equation returned is the one
\* the non-embedded resolver returns for the element at its absolute position.
C6_EmbedUsesAbsoluteLines ==
    rv.surface = "embed" =>
        /\ InCallout =>
               rv.range = [start |-> rv.info.lineStart + rv.base,
                           end |-> rv.info.lineEnd + rv.base]
        /\ rv.result = getEquationCache(blocks, SectionInfo(rv.element, 0),
                                        rv.element.index, 0)

(***************************************************************************)
(* PDF export (reading-view.ts 16-104) and EquationNumberRenderer.update   *)
(* (159-167).  The identity token of a block is its key in the page.       *)
(***************************************************************************)
\* index.getEquationBlock(id): the equation block with that identity token.
getEquationBlock(bs, id) ==
    IF id \in DOMAIN bs /\ bs[id].type = "equation" THEN id ELSE NoMatch

\* An identity token that names no block of the page.
UnknownId == MaxLines + 1

\* The display-math elements of the exported document in DOM order: one per
\* top-level math block, one per display-math region of a theorem callout.
DomElements ==
    LET bs == metadata.sections IN
    LET F[i \in 0..Len(bs)] ==
            IF i = 0 THEN <<>>
            ELSE IF bs[i].type = "math"
                 THEN Append(F[i - 1], [block |-> i, index |-> 0])
            ELSE IF IsTheoremCallout(lines, bs[i])
                 THEN F[i - 1] \o [j \in 1..Len(EquationsInCallout(markdown, bs[i]))
                                       |-> [block |-> i, index |-> j - 1]]
            ELSE F[i - 1]
    IN F[Len(bs)]

\* Lines 42-48: the positions in the DOM of the elements selected, those of
\* the top-level math blocks, or every element when there is none of them.
SelectedElements(dom) ==
    LET top == {d \in 1..Len(dom) : metadata.sections[dom[d].block].type = "math"}
    IN IF top = {} THEN SortedKeys(1..Len(dom)) ELSE SortedKeys(top)

\* Lines 57-64: the equation blocks of the sections' block lists.
CollectEquationBlocks(secs, bs) ==
    LET keys == SortedKeys(DOMAIN secs) IN
    LET F[i \in 0..Len(keys)] ==
            IF i = 0 THEN <<>>
            ELSE F[i - 1] \o SelectSeq(secs[keys[i]].blocks,
                                       LAMBDA k : bs[k].type = "equation")
    IN F[Len(keys)]

\* Lines 72-98: element i of the selection gets the token of block i, for
\* i below the smaller of the two counts; NoMatch stands for no attribute.
preprocessForPdfExport(dom, secs, bs) ==
    LET selected == SelectedElements(dom)
        equationBlocks == CollectEquationBlocks(secs, bs)
        minCount == IF Len(equationBlocks) < Len(selected)
                    THEN Len(equationBlocks) ELSE Len(selected)
    IN [d \in 1..Len(dom) |->
           IF \E i \in 1..minCount : selected[i] = d
           THEN equationBlocks[CHOOSE i \in 1..minCount : selected[i] = d]
           ELSE NoMatch]

\* update() taking the positional result also when a token resolves to no
\* block.
updateWithFallback(bs, id, positional) ==
    IF id # NoMatch /\ getEquationBlock(bs, id) # NoMatch
    THEN getEquationBlock(bs, id)
    ELSE positional

\* Line 163: the equation update() applies; positional is what
\* getEquationCacheCaringHoverAndEmbed() returns.
update(bs, id, positional) ==
    IF id # NoMatch THEN getEquationBlock(bs, id) ELSE positional

\* getEquationCache() of an element: no match when getSectionInfo is null.
Positional(el, hasInfo) ==
    IF hasInfo THEN getEquationCache(blocks, SectionInfo(el, 0), el.index, 0)
    ELSE NoMatch

\* The equation blocks of the page.
EquationKeys == {k \in DOMAIN blocks : blocks[k].type = "equation"}

\* Line 17: preprocessForPdfExport on the exported document.
PdfPreprocess ==
    /\ AtRest
    /\ rv' = [surface |-> "pdf", dom |-> DomElements,
              selected |-> SelectedElements(DomElements),
              collected |-> CollectEquationBlocks(sections, blocks),
              tokens |-> preprocessForPdfExport(DomElements, sections, blocks)]
    /\ UNCHANGED <<indexVars, lp, scan>>

\* update() of the renderer of element d after the preprocessing.
PdfUpdate(d, hasInfo) ==
    /\ pc = "done"
    /\ rv.surface = "pdf"
    /\ d \in 1..Len(rv.dom)
    /\ rv' = [surface |-> "pdfupdate", dom |-> rv.dom, selected |-> rv.selected,
              collected |-> rv.collected, tokens |-> rv.tokens, at |-> d,
              hasInfo |-> hasInfo,
              result |-> update(blocks, rv.tokens[d],
                                Positional(rv.dom[d], hasInfo))]
    /\ UNCHANGED <<indexVars, lp, scan>>

\* update() of an element that carries the token id; positional is what
\* its section info, its anchor and its place in the DOM resolve to.
TokenUpdate(id, positional) ==
    /\ AtRest
    /\ rv' = [surface |-> "token", id |-> id, positional |-> positional,
              result |-> update(blocks, id, positional)]
    /\ UNCHANGED <<indexVars, lp, scan>>

NextPdf ==
    \/ PdfPreprocess
    \/ pc = "done" /\ rv.surface = "pdf" /\
           \E d \in 1..Len(rv.dom), hasInfo \in BOOLEAN : PdfUpdate(d, hasInfo)
    \/ AtRest /\ \E id \in DOMAIN blocks \cup {UnknownId},
                     positional \in EquationKeys \cup {NoMatch} :
                         TokenUpdate(id, positional)

SpecPdf == InitRV /\ [][NextPdf]_vars

\* The block of the display-math region that an element renders.
RendersBlock(el, k) ==
    LET b == metadata.sections[el.block] IN
    IF b.type = "math"
    THEN k = b.start /\ blocks[k].type = "equation"
    ELSE IsBlockOfRegion(blocks[k], EquationsInCallout(markdown, b)[el.index + 1])

\* Every equation block of the store is in a section's block list.
EquationsInSections ==
    \A k \in DOMAIN blocks :
        blocks[k].type = "equation" => \E s \in DOMAIN sections : InSection(s, k)

\* Every display-math region of every theorem callout has a store key of
\* its own, and every equation block is in a section's block list.
AllEquationsCollected ==
    /\ \A i \in 1..Len(metadata.sections) :
           IsTheoremCallout(lines, metadata.sections[i]) =>
               RegionsOnOwnLines(metadata.sections[i],
                                 EquationsInCallout(markdown, metadata.sections[i]))
    /\ EquationsInSections

\* C12: in PDF-export preprocessing every math element that is given a token
\* is given the token of the equation block of the region it renders, in
\* documents that mix top-level display math with display math nested in
\* theorem callouts.  Stated for the documents whose equation blocks are all
\* in the store and in a section.
C12_TokenOfOwnBlock ==
    (rv.surface = "pdf" /\ AllEquationsCollected) =>
        \A d \in 1..Len(rv.dom) :
            rv.tokens[d] # NoMatch => RendersBlock(rv.dom[d], rv.tokens[d])

\* C15: an element that carries a token is resolved by the token alone: the
\* result is the equation block the token names whatever the section info,
\* the anchor and the place in the DOM resolve to, and no match when the
\* token names no equation block of the index, also when the positional
\* lookup would find one.
C15_TokenAlone ==
    rv.surface = "token" =>
        rv.result = IF rv.id \in DOMAIN blocks /\ blocks[rv.id].type = "equation"
                    THEN rv.id ELSE NoMatch

\* C15 witness: a token that names no block, on an element whose positional
\* lookup finds an equation, was resolved to no match; or a token of one
\* equation block was resolved to it on an element whose positional lookup
\* finds another one.
C15_Witness ==
    /\ rv.surface = "token"
    /\ rv.positional # NoMatch
    /\ \/ rv.id = UnknownId /\ rv.result = NoMatch
       \/ rv.id \in EquationKeys /\ rv.id # rv.positional /\ rv.result = rv.id

\* C20: with m collected equation blocks and n selected math elements,
\* element i gets the token of block i for i < min(m, n) and the elements
\* from min(m, n) on get none; the update() of such an element applies no
\* equation.  Stated for the pages whose equation blocks are all in a
\* section's block list.
C20_ZipThenUnresolved ==
    (rv.surface \in {"pdf", "pdfupdate"} /\ EquationsInSections) =>
        LET m == Len(rv.collected)
            n == Len(rv.selected)
            min == IF m < n THEN m ELSE n
        IN /\ \A i \in 1..n :
                  rv.tokens[rv.selected[i]] =
                      IF i <= min THEN rv.collected[i] ELSE NoMatch
           /\ (rv.surface = "pdfupdate"
                 /\ \E i \in (min + 1)..n : rv.selected[i] = rv.at)
                => rv.result = NoMatch

(***************************************************************************)
(* EquationNumberRenderer.getEquationCacheCaringHoverAndEmbed              *)
(* (reading-view.ts 169-210): an element rendered inside an embed or a     *)
(* hover preview.  The renderer's own source file is the indexed page of   *)
(* the state; the anchor's target is that file or another document.        *)
(***************************************************************************)
\* The other documents an anchor may resolve to.
OtherDocs ==
    {<<LHeading, LMath>>, <<LText, LHeading, LMath>>,
     <<LHeading, LHeader, LQMath>>, <<LText, LMath>>}

\* The block store of the indexed page of a text.
PageBlocks(data) == ImportAllBlocks(data, Metadata(data)).blocks

\* A resolution's result: a block of a page, or none.
NoResult == [page |-> "none", key |-> NoMatch]

InPage(page, key) ==
    IF key = NoMatch THEN NoResult ELSE [page |-> page, key |-> key]

\* getBlockById falling back on the next block below the line of the id.
getBlockByIdOrNext(bs, id) ==
    IF id \in DOMAIN bs /\ bs[id].type = "equation" THEN id
    ELSE GetPairOrNextHigher(bs, id + 1)

\* page.$blocks.get(id): the block built from the outline block that carries
\* the block id; an id is the start line of its outline block.
getBlockById(bs, id) == IF id \in DOMAIN bs THEN id ELSE NoMatch

\* getEquationCacheCaringHoverAndEmbed ignoring a linktext that does not
\* resolve.
getEquationCacheIgnoringBrokenAnchor(own, target, info, ourIndex, anchor) ==
    LET equation == InPage("own", getEquationCache(own, info, ourIndex, 0)) IN
    IF ~anchor.linktext THEN equation
    ELSE IF anchor.file = "none" \/ anchor.subpath = "none" THEN equation
    ELSE IF ~anchor.ready THEN equation
    ELSE IF anchor.subpath = "block"
         THEN LET block == getBlockById(target, anchor.id)
              IN IF block # NoMatch /\ target[block].type = "equation"
                 THEN InPage(anchor.file, block)
                 ELSE NoResult
    ELSE InPage("own", getEquationCache(own, info, ourIndex, anchor.line))

\* own: the block store of the page of this.file; target: that of the page
\* index.load(file.path) returns; anchor: what resolveLinktext and the index
\* report for the linktext.
getEquationCacheCaringHoverAndEmbed(own, target, info, ourIndex, anchor) ==
    LET equation == InPage("own", getEquationCache(own, info, ourIndex, 0)) IN
    IF ~anchor.linktext THEN equation
    ELSE IF anchor.file = "none" \/ anchor.subpath = "none" THEN NoResult
    ELSE IF ~anchor.ready THEN NoResult
    ELSE IF anchor.subpath = "block"
         THEN LET block == getBlockById(target, anchor.id)
              IN IF block # NoMatch /\ target[block].type = "equation"
                 THEN InPage(anchor.file, block)
                 ELSE NoResult
    ELSE InPage("own", getEquationCache(own, info, ourIndex, anchor.line))

NoAnchor ==
    [linktext |-> FALSE, file |-> "none", subpath |-> "none", ready |-> FALSE,
     id |-> NoMatch, line |-> 0]

\* The section infos the element of an embedded block may report.
Infos ==
    {[lineStart |-> 0, lineEnd |-> 0], [lineStart |-> 0, lineEnd |-> 1],
     [lineStart |-> 1, lineEnd |-> 1]}

\* The renderer's own document, where a document is asked for.
OwnDoc == <<>>

\* The block store of the page of the anchor's document.
TargetBlocks(file, other) ==
    IF file = "other" THEN PageBlocks(Join(other)) ELSE blocks

\* The record of one update() in an embed or hover preview.
Anchored(other, info, ourIndex, anchor) ==
    [surface |-> "anchor", anchor |-> anchor, info |-> info, index |-> ourIndex,
     other |-> other,
     unanchored |-> InPage("own", getEquationCache(blocks, info, ourIndex, 0)),
     result |-> getEquationCacheCaringHoverAndEmbed(
                    blocks, TargetBlocks(anchor.file, other), info, ourIndex,
                    anchor),
     \* what update() hands to replaceMathTag (lines 163-166)
     applied |-> update(blocks, NoMatch,
                        getEquationCacheCaringHoverAndEmbed(
                            blocks, TargetBlocks(anchor.file, other), info,
                            ourIndex, anchor).key)]

\* Lines 193-198: the linktext names no file, no sub-location, or a file
\* whose page the index does not hold.
BrokenAnchorUpdate(el, file, subpath) ==
    /\ AtRest
    /\ rv' = Anchored(OwnDoc, SectionInfo(el, 0), el.index,
                      [NoAnchor EXCEPT !.linktext = TRUE, !.file = file,
                                       !.subpath = subpath])
    /\ UNCHANGED <<indexVars, lp, scan>>

\* Lines 200-203: the linktext resolves to the block with identity id of
\* file ("own", or the other document other).
BlockAnchorUpdate(file, other, id, info, ourIndex) ==
    /\ AtRest
    /\ LET outline == IF file = "own" THEN metadata.sections
                      ELSE MetaSections(Join(other))
       IN /\ \E i \in 1..Len(outline) :
                 outline[i].type # "heading" /\ outline[i].start = id
          /\ rv' = Anchored(other, info, ourIndex,
                            [NoAnchor EXCEPT !.linktext = TRUE, !.file = file,
                                             !.subpath = "block", !.ready = TRUE,
                                             !.id = id])
    /\ UNCHANGED <<indexVars, lp, scan>>

\* Lines 204-206: the linktext resolves to the heading on line base of the
\* other document other, whose element el is rendered in the embed.
RangeAnchorUpdate(other, base, el) ==
    /\ AtRest
    /\ LET data == Join(other)
           meta == Metadata(data)
       IN /\ \E i \in 1..Len(meta.headings) : meta.headings[i].line = base
          /\ el \in ElementsOf(data, other, meta)
          /\ meta.sections[el.block].start >= base
          /\ rv' = Anchored(other,
                            [lineStart |-> meta.sections[el.block].start - base,
                             lineEnd |-> meta.sections[el.block].end - base],
                            el.index,
                            [NoAnchor EXCEPT !.linktext = TRUE, !.file = "other",
                                             !.subpath = "range", !.ready = TRUE,
                                             !.line = base])
    /\ UNCHANGED <<indexVars, lp, scan>>

\* Lines 184-209: no linktext is found.
NoAnchorUpdate(el) ==
    /\ AtRest
    /\ rv' = Anchored(OwnDoc, SectionInfo(el, 0), el.index, NoAnchor)
    /\ UNCHANGED <<indexVars, lp, scan>>

NextAnchor ==
    \/ AtRest /\ \E el \in Elements,
                     bad \in {<<"none", "none">>, <<"own", "none">>, <<"none", "range">>,
                              <<"own", "range">>, <<"own", "block">>} :
                     BrokenAnchorUpdate(el, bad[1], bad[2])
    \/ AtRest /\ \E id \in 0..(MaxLines - 1), info \in Infos, ourIndex \in 0..1 :
                     \/ BlockAnchorUpdate("own", OwnDoc, id, info, ourIndex)
                     \/ \E other \in OtherDocs :
                            BlockAnchorUpdate("other", other, id, info, ourIndex)
    \/ AtRest /\ \E other \in OtherDocs, base \in 0..2,
                     el \in {[block |-> b, index |-> j] : b \in 1..3, j \in 0..1} :
                     RangeAnchorUpdate(other, base, el)
    \/ AtRest /\ \E el \in Elements : NoAnchorUpdate(el)

InitAnchor == InitPage({d \in Docs : Len(d) <= MaxAnchorLines})

SpecAnchor == InitAnchor /\ [][NextAnchor]_vars

\* C13: when a linktext is present and its file, its sub-location or the
\* file's indexed page cannot be resolved, the resolver returns no match,
\* the equation of the un-anchored positional lookup is not used, and
\* update() applies no equation.
C13_BrokenAnchorNoMatch ==
    (/\ rv.surface = "anchor"
     /\ rv.anchor.linktext
     /\ (rv.anchor.file = "none" \/ rv.anchor.subpath = "none" \/ ~rv.anchor.ready))
    => (rv.result = NoResult /\ rv.applied = NoMatch)

\* C13 witness: a linktext that does not resolve, on an element for which
\* the un-anchored positional lookup finds an equation.
C13_Witness ==
    /\ rv.surface = "anchor"
    /\ rv.anchor.linktext /\ ~rv.anchor.ready
    /\ rv.unanchored # NoResult
    /\ rv.result = NoResult

\* C18: for a line-range anchor the block is looked up in the page of the
\* document the anchor resolves to, also when that document is not the
\* renderer's own source file.
C18_RangeAnchorInTargetPage ==
    (/\ rv.surface = "anchor"
     /\ rv.anchor.subpath = "range" /\ rv.anchor.ready
     /\ rv.anchor.file = "other")
    => rv.result = InPage("other",
                          getEquationCache(PageBlocks(Join(rv.other)), rv.info,
                                           rv.index, rv.anchor.line))

\* C19: an anchor that resolves to a block id returns that block of the
\* target page without line arithmetic: for every reported relative line
\* and sibling ordinal the result is the anchored block when it is an
\* equation block and no match when it is of another kind.
C19_BlockAnchorDirect ==
    (/\ rv.surface = "anchor"
     /\ rv.anchor.subpath = "block" /\ rv.anchor.ready
     /\ rv.anchor.file # "none")
    => LET target == TargetBlocks(rv.anchor.file, rv.other)
           id == rv.anchor.id
       IN rv.result = IF id \in DOMAIN target /\ target[id].type = "equation"
                      THEN [page |-> rv.anchor.file, key |-> id]
                      ELSE NoResult

\* C19 witness: a block anchor on a theorem callout that nests an equation
\* was resolved to no match, from an element whose reported lines resolve
\* to an equation by position.
C19_Witness ==
    /\ rv.surface = "anchor"
    /\ rv.anchor.subpath = "block" /\ rv.anchor.ready
    /\ LET target == TargetBlocks(rv.anchor.file, rv.other)
       IN /\ target[rv.anchor.id].type = "theorem"
          /\ \E k \in DOMAIN target :
                 target[k].type = "equation" /\ Covers(target[rv.anchor.id], target[k])
    /\ rv.unanchored # NoResult
    /\ rv.result = NoResult

(***************************************************************************)
(* One live-preview plugin instance (live-preview.ts 33-79) bound to one   *)
(* file, and the index it loads the file's page from.  A page is known by  *)
(* the version of the source text it was built from.                       *)
(***************************************************************************)
NoPage == 0

InitLP ==
    /\ markdown = <<>>
    /\ metadata = Metadata(markdown)
    /\ pc = "idle"
    /\ lines = <<>>
    /\ sections = EmptyTree
    /\ blocks = EmptyTree
    /\ blockOrdinal = 1
    /\ bi = 1
    /\ links = <<>>
    /\ linkdefs = <<>>
    /\ fmdefs = <<>>
    /\ rv = Idle
    /\ lp = [src |-> 1,            \* version of the file's source text
             indexPage |-> NoPage, \* what index.load(path) returns
             notify |-> FALSE,     \* an index-updated event is pending
             page |-> NoPage,      \* this.page
             applied |-> NoPage,   \* page of the last updateEquationNumber
             reloads |-> {},       \* updatePage calls awaiting reload(file)
             nextId |-> 1,         \* refreshes started so far, plus one
             pageBy |-> 0,         \* the refresh that last set this.page
             appliedBy |-> 0]      \* the refresh whose page was last applied
    /\ scan = Idle

\* updatePage(file).then(updateEquationNumber) up to the await: the page the
\* index holds is cached; with a page cached the refresh completes at once,
\* without one it awaits reload(file).
BeginRefresh(l) ==
    LET id == l.nextId
        cached == IF l.indexPage # NoPage THEN l.indexPage ELSE l.page
    IN IF cached # NoPage
       THEN [l EXCEPT !.page = cached,
                      !.pageBy = IF l.indexPage # NoPage THEN id ELSE @,
                      !.applied = cached, !.appliedBy = id, !.nextId = id + 1]
       ELSE [l EXCEPT !.reloads = @ \cup {[id |-> id, from |-> l.src]},
                      !.nextId = id + 1]

\* this.page = await reload(file); return this.page; and the then-callback.
FinishRefresh(l, r, page) ==
    [l EXCEPT !.page = page, !.pageBy = r.id, !.applied = page,
              !.appliedBy = r.id, !.reloads = @ \ {r}]

lpFrame == <<markdown, metadata, pc, lines, sections, blocks, blockOrdinal,
             bi, links, linkdefs, fmdefs, rv, scan>>

\* The user edits the file.
Edit ==
    /\ pc = "idle"
    /\ lp.src < MaxVersion
    /\ lp' = [lp EXCEPT !.src = @ + 1]
    /\ UNCHANGED lpFrame

\* The index manager stores the page of the current text and emits
\* index-updated (live-preview.ts 21-31 dispatches forceUpdateEffect).
IndexStore ==
    /\ pc = "idle"
    /\ lp.indexPage # lp.src
    /\ lp' = [lp EXCEPT !.indexPage = lp.src, !.notify = TRUE]
    /\ UNCHANGED lpFrame

\* update() on a transaction carrying forceUpdateEffect (lines 71-74).
ForceUpdate ==
    /\ pc = "idle"
    /\ lp.notify
    /\ lp.nextId <= MaxRefreshes
    /\ lp' = [BeginRefresh(lp) EXCEPT !.notify = FALSE]
    /\ UNCHANGED lpFrame

\* update() with geometryChanged and no page cached (line 77).
GeometryRefresh ==
    /\ pc = "idle"
    /\ lp.page = NoPage
    /\ lp.nextId <= MaxRefreshes
    /\ lp' = BeginRefresh(lp)
    /\ UNCHANGED lpFrame

\* update() with geometryChanged and a page cached (line 76).
GeometryApply ==
    /\ pc = "idle"
    /\ lp.page # NoPage
    /\ lp' = [lp EXCEPT !.applied = lp.page]
    /\ UNCHANGED lpFrame

\* reload(file) of refresh r resolves with the page of the text it read,
\* some version between the call and now.
ReloadDone(r, page) ==
    /\ pc = "idle"
    /\ r \in lp.reloads
    /\ r.from <= page /\ page <= lp.src
    /\ lp' = FinishRefresh(lp, r, page)
    /\ UNCHANGED lpFrame

NextLP ==
    \/ Edit
    \/ IndexStore
    \/ ForceUpdate
    \/ GeometryRefresh
    \/ GeometryApply
    \/ \E r \in lp.reloads, page \in 1..MaxVersion : ReloadDone(r, page)

SpecLP == InitLP /\ [][NextLP]_vars

\* C10: when two page refreshes of one instance overlap, the later one
\* supersedes the earlier: a refresh that started earlier than the one whose
\* page is cached (applied) never replaces that page in the cache (on the
\* rendered equations) by another one.
C10_LaterRefreshSupersedes ==
    [][/\ lp'.pageBy < lp.pageBy => lp'.page = lp.page
       /\ lp'.appliedBy < lp.appliedBy => lp'.applied = lp.applied]_vars

(***************************************************************************)
(* One run of updateEquationNumber (live-preview.ts 81-135) over the       *)
(* display-math elements of the editor, on an indexed page.  An equation's *)
(* print name is known by a number; the page gives some equations none.    *)
(***************************************************************************)
NullName == 0

\* The display-math elements the editor renders: one per top-level math
\* block and one per display-math region of a theorem callout.
Rendered ==
    {el \in Elements :
        LET b == metadata.sections[el.block]
        IN b.type = "math" \/ el.index < Len(EquationsInCallout(markdown, b))}

\* Lines 83-89: the elements of top-level math first, then those inside
\* callouts, each once, in document order.
mjxContainerElements ==
    LET n == Cardinality(Rendered)
        top(el) == metadata.sections[el.block].type = "math"
        before(a, b) ==
            \/ top(a) /\ ~top(b)
            \/ top(a) = top(b) /\ a.block < b.block
            \/ a.block = b.block /\ a.index < b.index
    IN CHOOSE seq \in [1..n -> Rendered] :
           \A i, j \in 1..n : i < j => before(seq[i], seq[j])

\* Lines 98-121: the equation an element resolves to; the editor reports the
\* position of the element's outline block.
ResolveElement(d) ==
    LET b == metadata.sections[d.el.block]
    IN LivePreviewEquation(blocks, b.start, b.startOffset, d.el.index,
                           d.lineThrows)

\* equation.$printName on the page of the run.
PrintName(p, equation) ==
    IF equation \in p.unnumbered THEN NullName ELSE blocks[equation].ordinal

\* getAttribute('data-equation-print-name'): null when the attribute is absent.
getAttribute(attr) == IF attr = {} THEN NullName ELSE CHOOSE v \in attr : TRUE

\* The attribute left as the element had it.
KeepAttribute(attr, name) == attr

\* Lines 128-129: setAttribute for a print name, removeAttribute for null.
PrintNameAttribute(attr, name) == IF name # NullName THEN {name} ELSE {}

\* One turn of the loop leaving the loop at an element without an equation.
TurnStoppingAtNoEquation(p) ==
    LET d == p.dom[p.i]
        equation == ResolveElement(d)
    IN IF d.edited THEN [p EXCEPT !.i = @ + 1]
       ELSE IF equation = NoMatch THEN [p EXCEPT !.i = Len(p.dom) + 1]
       ELSE LET name == PrintName(p, equation)
            IN [p EXCEPT !.i = @ + 1,
                         !.calls = IF getAttribute(d.attr) # name
                                   THEN @ \cup {p.i} ELSE @,
                         !.dom[p.i].attr = PrintNameAttribute(@, name),
                         !.annotated = @ \cup {p.i}]

\* Lines 91-130: one turn of the loop over the elements; calls holds the
\* elements replaceMathTag was called for.
Turn(p) ==
    LET d == p.dom[p.i]
        equation == ResolveElement(d)
    IN IF d.edited THEN [p EXCEPT !.i = @ + 1]
       ELSE IF equation = NoMatch THEN [p EXCEPT !.i = @ + 1]
       ELSE LET name == PrintName(p, equation)
            IN [p EXCEPT !.i = @ + 1,
                         !.calls = IF getAttribute(d.attr) # name
                                   THEN @ \cup {p.i} ELSE @,
                         !.dom[p.i].attr = PrintNameAttribute(@, name),
                         !.annotated = @ \cup {p.i}]

MaxPassLines == 4
MaxPassElements == 2
MaxPasses == 2

PassLines == {LBlank, LMath, LHeader, LHeaderMath, LQMath}

InitPass ==
    InitPage({d \in Docs : /\ Len(d) <= MaxPassLines
                           /\ \A i \in 1..Len(d) : d[i] \in PassLines})

InPass == pc = "done" /\ lp.surface = "pass"

\* The positions of the elements of an editor in which no run has begun.
PassIndices ==
    IF pc = "done" /\ lp = Idle /\ Cardinality(Rendered) <= MaxPassElements
    THEN 1..Cardinality(Rendered) ELSE {}

\* The editor's elements when the first run begins: each is being edited or
\* not and has its line found or not (lineAt raises); the elements named
\* carry the print-name attribute of an earlier run; the page gives the
\* equations unnumbered no print name.
PassBegin(edited, throws, named, unnumbered) ==
    /\ pc = "done" /\ lp = Idle
    /\ edited \cap throws = {}
    /\ PassIndices # {}
    /\ LET elements == mjxContainerElements
       IN lp' = [surface |-> "pass",
                 dom |-> [j \in PassIndices |->
                             [el |-> elements[j],
                              edited |-> j \in edited,
                              lineThrows |-> j \in throws,
                              attr |-> IF j \in named THEN {1} ELSE {}]],
                 unnumbered |-> unnumbered,
                 i |-> 1, run |-> 1, finished |-> 0,
                 calls |-> {}, annotated |-> {}]
    /\ UNCHANGED lpFrame

\* One turn of the loop over the elements.
PassTurn ==
    /\ InPass
    /\ lp.i <= Len(lp.dom)
    /\ lp' = Turn(lp)
    /\ UNCHANGED lpFrame

\* Line 134: the loop is over, finishRenderMath is called.
PassFinish ==
    /\ InPass
    /\ lp.i > Len(lp.dom)
    /\ lp.finished < lp.run
    /\ lp' = [lp EXCEPT !.finished = lp.run]
    /\ UNCHANGED lpFrame

\* A later update runs updateEquationNumber again, on the same page and the
\* same elements.
PassAgain ==
    /\ InPass
    /\ lp.finished = lp.run
    /\ lp.run < MaxPasses
    /\ lp' = [lp EXCEPT !.run = @ + 1, !.i = 1, !.calls = {}, !.annotated = {}]
    /\ UNCHANGED lpFrame

NextPass ==
    \/ \E edited, throws \in SUBSET PassIndices,
          named \in {{}, PassIndices}, unnumbered \in {{}, EquationKeys} :
           PassBegin(edited, throws, named, unnumbered)
    \/ PassTurn
    \/ PassFinish
    \/ PassAgain

\* The loop has no await: a run that has begun goes on to its end.
SpecPass ==
    InitPass /\ [][NextPass]_vars /\ WF_vars(PassTurn) /\ WF_vars(PassFinish)

PassEnded == InPass /\ lp.finished = lp.run

\* The elements of the run that are not being edited and resolve to an
\* equation.
Resolvable ==
    {j \in 1..Len(lp.dom) :
        ~lp.dom[j].edited /\ ResolveElement(lp.dom[j]) # NoMatch}

\* The element bears its equation's print name, and no attribute for null.
BearsPrintName(j) ==
    LET name == PrintName(lp, ResolveElement(lp.dom[j]))
    IN lp.dom[j].attr = IF name = NullName THEN {} ELSE {name}

\* C21: every live-preview numbering pass ends with a call to
\* finishRenderMath, made after the last element; an element that resolves
\* to no equation, or whose line computation raises (the offset lookup is
\* then used), does not keep the remaining elements of the pass from being
\* annotated: at the end every element that resolves to an equation and is
\* not being edited has been annotated.
C21_PassEndsAndAnnotatesAll ==
    /\ (InPass /\ lp.finished < lp.run) ~> PassEnded
    /\ [](InPass => /\ lp.finished <= lp.run
                    /\ lp.finished = lp.run => lp.i > Len(lp.dom))
    /\ [](PassEnded => /\ lp.annotated = Resolvable
                       /\ \A j \in Resolvable : BearsPrintName(j))

\* C21 witness: a pass has ended in which an element resolved to no
\* equation and a later element, whose line computation raised, was
\* annotated.
C21_Witness ==
    /\ PassEnded
    /\ \E j, k \in 1..Len(lp.dom) :
           /\ j < k
           /\ ~lp.dom[j].edited /\ ResolveElement(lp.dom[j]) = NoMatch
           /\ lp.dom[k].lineThrows /\ k \in lp.annotated

\* C25: the live-preview numbering pass is idempotent: after a pass each
\* annotated element's data-equation-print-name is its equation's print
\* name, and is absent when the print name is null; a second pass against
\* the same page and the same elements calls replaceMathTag for no element.
C25_PassIdempotent ==
    InPass =>
        /\ \A j \in lp.annotated : BearsPrintName(j)
        /\ lp.run > 1 => lp.calls = {}

\* C25 witness: a second pass has ended that annotated two elements whose
\* equations have no print name; the elements bear no attribute.
C25_Witness ==
    /\ PassEnded /\ lp.run = MaxPasses
    /\ Cardinality(lp.annotated) = MaxPassElements
    /\ \A j \in lp.annotated :
           PrintName(lp, ResolveElement(lp.dom[j])) = NullName

(***************************************************************************)
(* The live-preview instance in a leaf whose view switches between source  *)
(* and preview mode: the index-updated handler (live-preview.ts 21-31)     *)
(* reaches the instance only through a leaf in source mode.                *)
(***************************************************************************)
MaxModePasses == 3

InitMode ==
    /\ markdown = <<>>
    /\ metadata = Metadata(markdown)
    /\ pc = "idle"
    /\ lines = <<>>
    /\ sections = EmptyTree
    /\ blocks = EmptyTree
    /\ blockOrdinal = 1
    /\ bi = 1
    /\ links = <<>>
    /\ linkdefs = <<>>
    /\ fmdefs = <<>>
    /\ rv = Idle
    /\ lp = [src |-> 1, indexPage |-> NoPage, notify |-> FALSE,
             page |-> NoPage, applied |-> NoPage, reloads |-> {},
             nextId |-> 1, pageBy |-> 0, appliedBy |-> 0,
             mode |-> "source",  \* leaf.view.getMode()
             passes |-> 0,       \* calls of updateEquationNumber so far
             pageFrom |-> "none"] \* what this.page was last assigned from
    /\ scan = Idle

\* updateEquationNumber is called with the page l.applied.
Passed(l) == [l EXCEPT !.passes = @ + 1]

\* Lines 71-74 and 77: updatePage(file).then(updateEquationNumber); line 60
\* assigns this.page the page index.load returns, if it returns one.
Refreshed(l) ==
    LET after == BeginRefresh(l)
        loaded == IF l.indexPage # NoPage
                  THEN [after EXCEPT !.pageFrom = "index"] ELSE after
    IN IF after.reloads = l.reloads THEN Passed(loaded) ELSE loaded

\* The index manager stores the page of the current text and emits
\* index-updated: the handler dispatches forceUpdateEffect to the leaf in
\* source mode, whose update() refreshes the page (lines 21-31, 71-74).
IndexUpdated ==
    /\ pc = "idle"
    /\ lp.indexPage # lp.src
    /\ lp.nextId <= MaxRefreshes /\ lp.passes < MaxModePasses
    /\ LET stored == [lp EXCEPT !.indexPage = lp.src]
       IN lp' = IF lp.mode = "source" THEN Refreshed(stored)
                ELSE stored
    /\ UNCHANGED lpFrame

\* The user switches the view between source and preview mode.
SwitchMode ==
    /\ pc = "idle"
    /\ lp' = [lp EXCEPT !.mode = IF @ = "source" THEN "preview" ELSE "source"]
    /\ UNCHANGED lpFrame

\* update() with geometryChanged, in the editor shown (lines 75-78).
GeometryChanged ==
    /\ pc = "idle"
    /\ lp.mode = "source"
    /\ lp.nextId <= MaxRefreshes /\ lp.passes < MaxModePasses
    /\ lp' = IF lp.page # NoPage
             THEN Passed([lp EXCEPT !.applied = lp.page])
             ELSE Refreshed(lp)
    /\ UNCHANGED lpFrame

\* reload(file) of refresh r resolves; the then-callback runs.
ReloadResolved(r, page) ==
    /\ pc = "idle"
    /\ r \in lp.reloads
    /\ r.from <= page /\ page <= lp.src
    /\ lp.passes < MaxModePasses
    /\ lp' = Passed([FinishRefresh(lp, r, page) EXCEPT !.pageFrom = "reload"])
    /\ UNCHANGED lpFrame

NextMode ==
    \/ Edit
    \/ IndexUpdated
    \/ SwitchMode
    \/ GeometryChanged
    \/ \E r \in lp.reloads, page \in 1..MaxVersion : ReloadResolved(r, page)

SpecMode == InitMode /\ [][NextMode]_vars

\* C23: after the index has emitted index-updated for the file, every later
\* live-preview numbering pass of the instance uses the page the index holds
\* for the file and never a page the instance cached before the
\* notification, for every interleaving of notifications, mode switches and
\* geometry-changed updates.  Stated for the passes on a page the instance
\* loaded from the index; a page assigned when an awaited reload resolves is
\* the subject of C10.
C23_PassUsesIndexedPage ==
    [][(/\ lp'.passes > lp.passes
        /\ lp'.pageFrom = "index"
        /\ lp'.indexPage # NoPage) => lp'.applied = lp'.indexPage]_vars

=============================================================================
